---- MODULE Spec2Model ----
(***************************************************************************)
(* A model of jose's JWT verification (dist/deno/jwt/verify.ts: jwtVerify) *)
(* on top of the JWS compact verification state machine, and of the AES    *)
(* key-wrap round-trip test (aeskw test module).                           *)
(***************************************************************************)
EXTENDS Integers, Sequences, FiniteSets, TLC

\* ------------------------------------------------------------------ bounds
NCalls == 2
MaxTolerance == 1

Calls == 1..NCalls

\* The caller's fixed "current time" T (options.currentDate) and the clock
\* that is read when no current time is given.
Now == MaxTolerance + 3
WallClock == Now + 2

Undefined == 0 - 1

\* ------------------------------------------------------------------ keys
\* A key handle: its type and its raw bytes (named, not spelled out).
hmacA == [kty |-> "oct", bytes |-> "a"]
hmacB == [kty |-> "oct", bytes |-> "b"]
rsaPubA == [kty |-> "RSA", bytes |-> "pubA"]
NoKey == [kty |-> "none", bytes |-> "none"]
Keys == {hmacA, hmacB, rsaPubA}

\* The second argument of jwtVerify: a key, or a resolver function. A resolver
\* is given by the key it returns for the token; NoKey: it finds none and throws.
KeyArgs ==
  {[fn |-> FALSE, key |-> k] : k \in Keys}
    \cup {[fn |-> TRUE, key |-> k] : k \in Keys \cup {NoKey}}

\* ------------------------------------------------------------------ tokens
Algs == {"HS256", "RS256"}
\* What produced the signature: an HMAC over the named secret bytes ("a", or the
\* bytes of the RSA public key A), or RSA private key A.
Signers == {"a", "pubA", "privA"}
CritNames == {"b64", "unknownExt"}

Headers ==
  {[alg |-> a, crit |-> cr, b64 |-> b,
    unknownExt |-> IF "unknownExt" \in cr THEN "present" ELSE "absent"] :
      a \in Algs, cr \in SUBSET CritNames, b \in {"absent", "true", "false"}}

ClaimsSets ==
  {[exp |-> e, nbf |-> n] :
      e \in {Undefined, Now - 1, Now, Now + 1}, n \in {Undefined, Now - 1, Now + 1}}

WellFormedTokens ==
  {[wellFormed |-> TRUE, header |-> h, payload |-> p, signedBy |-> s] :
      h \in Headers, p \in ClaimsSets, s \in Signers}

MalformedToken ==
  [wellFormed |-> FALSE,
   header |-> [alg |-> "HS256", crit |-> {}, b64 |-> "absent", unknownExt |-> "absent"],
   payload |-> [exp |-> Undefined, nbf |-> Undefined],
   signedBy |-> "a"]

Tokens == WellFormedTokens \cup {MalformedToken}

\* JWTVerifyOptions: the caller-declared understood crit names, the clock
\* tolerance and the fixed current date (Undefined: none given).
Options ==
  {[crit |-> u, clockTolerance |-> t, currentDate |-> d] :
      u \in SUBSET {"unknownExt"}, t \in 0..MaxTolerance, d \in {Undefined, Now}}

Inputs == {[jwt |-> j, key |-> k, options |-> o] : j \in Tokens, k \in KeyArgs, o \in Options}

DefaultInput ==
  [jwt |-> MalformedToken, key |-> [fn |-> FALSE, key |-> hmacA],
   options |-> [crit |-> {}, clockTolerance |-> 0, currentDate |-> Now]]

\* The inputs of the concurrent specification: HS256 tokens signed with secret
\* a, expired or without exp, against right, wrong and unresolvable keys.
ConcInputs ==
  {i \in Inputs :
     /\ i.jwt.wellFormed
     /\ i.jwt.header = [alg |-> "HS256", crit |-> {}, b64 |-> "absent", unknownExt |-> "absent"]
     /\ i.jwt.signedBy = "a"
     /\ i.jwt.payload.nbf = Undefined
     /\ i.jwt.payload.exp \in {Undefined, Now - 1}
     /\ i.key.key # rsaPubA
     /\ i.options = [crit |-> {}, clockTolerance |-> 0, currentDate |-> Now]}

\* ------------------------------------------------------------------ AES key wrap: the round-trip test
NMaterial == 2

\* Algorithm names, spelled out: the test reads the key size out of the name.
A128KW == <<"A", "1", "2", "8", "K", "W">>
A192KW == <<"A", "1", "9", "2", "K", "W">>
A256KW == <<"A", "2", "5", "6", "K", "W">>
A128GCMKW == <<"A", "1", "2", "8", "G", "C", "M", "K", "W">>
A192GCMKW == <<"A", "1", "9", "2", "G", "C", "M", "K", "W">>
A256GCMKW == <<"A", "2", "5", "6", "G", "C", "M", "K", "W">>

Envs == [isChromium : BOOLEAN, isElectron : BOOLEAN]

\* The vectors [alg, works] of the test, in the runtime env.
algorithms(env) ==
  << [alg |-> A128KW, works |-> ~env.isElectron],
     [alg |-> A192KW, works |-> ~(env.isChromium \/ env.isElectron)],
     [alg |-> A256KW, works |-> ~env.isElectron],
     [alg |-> A128GCMKW, works |-> TRUE],
     [alg |-> A192GCMKW, works |-> ~env.isChromium],
     [alg |-> A256GCMKW, works |-> TRUE] >>

\* String.prototype.slice(from, to) on a name, zero-based, to exclusive.
slice(str, from, to) ==
  LET hi == IF to > Len(str) THEN Len(str) ELSE to
  IN  IF from >= hi THEN <<>> ELSE SubSeq(str, from + 1, hi)

IsDigit(ch) == ch \in {"0", "1", "2", "3", "4", "5", "6", "7", "8", "9"}

DigitValue(ch) ==
  CASE ch = "0" -> 0 [] ch = "1" -> 1 [] ch = "2" -> 2 [] ch = "3" -> 3 [] ch = "4" -> 4
    [] ch = "5" -> 5 [] ch = "6" -> 6 [] ch = "7" -> 7 [] ch = "8" -> 8 [] ch = "9" -> 9

RECURSIVE parseDigits(_, _)
parseDigits(str, acc) ==
  IF str = <<>> \/ ~IsDigit(Head(str)) THEN acc
  ELSE parseDigits(Tail(str), acc * 10 + DigitValue(Head(str)))

\* parseInt(str, 10): the leading decimal digits; NaN (Undefined) when there are none.
parseInt(str) ==
  IF str = <<>> \/ ~IsDigit(Head(str)) THEN Undefined ELSE parseDigits(str, 0)

\* n >> 3 on a parsed number: NaN shifts to 0.
shiftRight3(n) == IF n = Undefined THEN 0 ELSE n \div 8

randomLengthShortSlice(alg) == shiftRight3(parseInt(slice(alg, 1, 3)))

\* The length of the raw random secret: parseInt(alg.slice(1, 4), 10) >> 3.
randomLength(alg) == shiftRight3(parseInt(slice(alg, 1, 4)))

\* The algorithm registry: the key size, in bits, each key-wrap algorithm requires.
requiredBits(alg) ==
  CASE alg \in {A128KW, A128GCMKW} -> 128
    [] alg \in {A192KW, A192GCMKW} -> 192
    [] alg \in {A256KW, A256GCMKW} -> 256

\* The content-encryption key size, in bytes, of enc A128GCM.
cekLength == 128 \div 8

\* Secret key material: its length in bytes and which random bytes it is.
Secret(len, id) == [kty |-> "oct", len |-> len, id |-> id]
RejectedSecret == [kty |-> "rejected", len |-> 0, id |-> 0]
NoJWE == [alg |-> <<>>, wrappedWith |-> RejectedSecret, cek |-> RejectedSecret,
          sealedWith |-> RejectedSecret, plaintext |-> "none"]
Plaintexts == {"p1", "p2"}

\* Whether the runtime's primitives support the algorithm: what the vectors record.
platformSupports(env, v) == algorithms(env)[v].works

\* Key-wrap encryption: the key must fit the algorithm; a fresh content-encryption
\* key (cek) seals the plaintext and is wrapped with the key.
encrypt(alg, secret, cek, plaintext) ==
  [alg |-> alg, wrappedWith |-> secret, cek |-> cek, sealedWith |-> cek,
   plaintext |-> plaintext]

keyFits(alg, secret) == secret.kty = "oct" /\ secret.len * 8 = requiredBits(alg)

\* Key-wrap decryption: unwrap the cek with the key, then open the ciphertext.
decrypt(jwe, secret) ==
  IF ~keyFits(jwe.alg, secret) THEN "KeyMismatchError"
  ELSE IF secret # jwe.wrappedWith THEN "CryptoOperationError"
  ELSE IF jwe.cek # jwe.sealedWith \/ jwe.cek.len # cekLength THEN "CryptoOperationError"
  ELSE jwe.plaintext

\* ------------------------------------------------------------------ settled promises
Rejected(name, claim) == [status |-> "rejected", error |-> name, claim |-> claim]
Fulfilled(v) == [status |-> "fulfilled", value |-> v]
Pending == [status |-> "pending"]

\* ------------------------------------------------------------------ JWS compact verification
Present(header, name) ==
  IF name = "b64" THEN header.b64 # "absent" ELSE header.unknownExt # "absent"

\* Every name in crit is present in the header and understood; b64 is the one
\* extension the JWS engine understands by itself.
validateCrit(header, understood) ==
  \A n \in header.crit : Present(header, n) /\ n \in (understood \cup {"b64"})

\* No check: any key goes to the primitive, which reads its bytes.
checkKeyCompatibilitySkipped(alg, k) == TRUE

\* The key's type matches what the algorithm requires.
checkKeyCompatibility(alg, k) ==
  IF alg = "HS256" THEN k.kty = "oct" ELSE k.kty = "RSA"

\* The external verify primitive: an HMAC verifies when its secret bytes are the
\* bytes that signed; an RSA signature verifies under the public key of its signer.
verifyPrimitive(alg, k, jwt) ==
  IF alg = "HS256" THEN k.bytes = jwt.signedBy
  ELSE k = rsaPubA /\ jwt.signedBy = "privA"

\* The key the call works with: the key given, or the resolver's answer.
resolveKey(keyArg) == keyArg.key

compactVerify(in) ==
  IF ~in.jwt.wellFormed THEN Rejected("FormatError", "")
  ELSE IF ~validateCrit(in.jwt.header, in.options.crit) THEN Rejected("HeaderError", "")
  ELSE IF in.key.fn /\ resolveKey(in.key) = NoKey THEN Rejected("KeyResolutionError", "")
  ELSE IF ~checkKeyCompatibility(in.jwt.header.alg, resolveKey(in.key))
    THEN Rejected("KeyMismatchError", "")
  ELSE IF ~verifyPrimitive(in.jwt.header.alg, resolveKey(in.key), in.jwt)
    THEN Rejected("CryptoOperationError", "")
  ELSE Fulfilled([payload |-> in.jwt.payload, protectedHeader |-> in.jwt.header,
                  key |-> resolveKey(in.key)])

\* ------------------------------------------------------------------ JWT claims validation
\* jwtPayload(protectedHeader, payload, options): the first violated claim aborts.
jwtPayload(header, payload, options) ==
  LET now == IF options.currentDate = Undefined THEN WallClock ELSE options.currentDate
      tolerance == options.clockTolerance
  IN  IF payload.exp # Undefined /\ payload.exp <= now - tolerance
        THEN Rejected("JWTExpired", "exp")
      ELSE IF payload.nbf # Undefined /\ payload.nbf > now + tolerance
        THEN Rejected("JWTClaimValidationFailed", "nbf")
      ELSE Fulfilled(payload)

\* ------------------------------------------------------------------ jwtVerify, after compactVerify
\* JWTs MUST NOT use unencoded payload.
UnencodedPayloadIgnoringCrit(protectedHeader) == protectedHeader.b64 = "false"

UnencodedPayload(protectedHeader) ==
  "b64" \in protectedHeader.crit /\ protectedHeader.b64 = "false"

\* No options reach the claims validator: no fixed date, no tolerance.
validatedPayloadNoOptions(v, options) ==
  jwtPayload(v.protectedHeader, v.payload,
             [crit |-> {}, clockTolerance |-> 0, currentDate |-> Undefined])

validatedPayload(v, options) == jwtPayload(v.protectedHeader, v.payload, options)

jwtResultAlwaysKey(payload, v, keyArg) ==
  [payload |-> payload, protectedHeader |-> v.protectedHeader, key |-> v.key]

\* The result: payload and protectedHeader, and the key when key is a function.
jwtResult(payload, v, keyArg) ==
  IF keyArg.fn
    THEN [payload |-> payload, protectedHeader |-> v.protectedHeader, key |-> v.key]
    ELSE [payload |-> payload, protectedHeader |-> v.protectedHeader]

\* What jwtVerify does with what compactVerify returned (v).
jwtVerifyContinue(v, keyArg, options) ==
  IF UnencodedPayload(v.protectedHeader) THEN Rejected("JWTInvalid", "")
  ELSE LET p == validatedPayload(v, options)
       IN  IF p.status = "rejected" THEN p
           ELSE Fulfilled(jwtResult(p.value, v, keyArg))

\* One jwtVerify call run alone, as a function of its arguments.
SoloOutcome(in) ==
  LET v == compactVerify(in)
  IN  IF v.status = "rejected" THEN v
      ELSE jwtVerifyContinue(v.value, in.key, in.options)

\* ------------------------------------------------------------------ state
VARIABLES
  input,        \* the arguments of each call
  pc,           \* jwtVerify: "unused", "idle", "await" (compactVerify), "done"
  cv,           \* compactVerify: the stage it is at
  key,          \* the key resolved in this call
  verified,     \* compactVerify's promise
  outcome,      \* jwtVerify's promise
  trace,        \* history: the stages run in this call, in order
  getKeyCalls,  \* history: how many times the resolver was invoked
  primKey,      \* history: the key handed to the verify primitive
  failedAt,     \* history: the stage that failed
  kw            \* the key-wrap round-trip test

jwtVars == <<input, pc, cv, key, verified, outcome, trace, getKeyCalls, primKey, failedAt>>
vars == <<input, pc, cv, key, verified, outcome, trace, getKeyCalls, primKey, failedAt, kw>>

StageOrder == <<"parse", "validateHeaders", "resolveKey", "checkKey", "verify", "claims">>

Range(s) == {s[i] : i \in 1..Len(s)}
IsPrefix(s, t) == Len(s) <= Len(t) /\ SubSeq(t, 1, Len(s)) = s
Last(s) == s[Len(s)]

\* compactVerify moves on to stage next, having run stage.
Advance(c, stage, next) ==
  /\ cv' = [cv EXCEPT ![c] = next]
  /\ trace' = [trace EXCEPT ![c] = Append(@, stage)]
  /\ UNCHANGED <<verified, failedAt>>

\* compactVerify fails in stage: terminal for the token.
Fail(c, stage, name) ==
  /\ cv' = [cv EXCEPT ![c] = "rejected"]
  /\ trace' = [trace EXCEPT ![c] = Append(@, stage)]
  /\ verified' = [verified EXCEPT ![c] = Rejected(name, "")]
  /\ failedAt' = [failedAt EXCEPT ![c] = stage]

\* ------------------------------------------------------------------ jwtVerify: the call
\* Claims are validated on the still unverified payload before the JWS is verified.
jwtVerifyCallClaimsFirst(c) ==
  /\ pc[c] = "idle"
  /\ trace' = [trace EXCEPT ![c] = Append(@, "claims")]
  /\ LET p == jwtPayload(input[c].jwt.header, input[c].jwt.payload, input[c].options)
     IN  IF p.status = "rejected"
           THEN /\ pc' = [pc EXCEPT ![c] = "done"]
                /\ outcome' = [outcome EXCEPT ![c] = p]
                /\ failedAt' = [failedAt EXCEPT ![c] = "claims"]
                /\ UNCHANGED cv
           ELSE /\ pc' = [pc EXCEPT ![c] = "await"]
                /\ cv' = [cv EXCEPT ![c] = "parse"]
                /\ UNCHANGED <<outcome, failedAt>>
  /\ UNCHANGED <<input, key, verified, getKeyCalls, primKey, kw>>

\* The resolver is invoked by jwtVerify itself, before the token is looked at.
jwtVerifyCallEagerResolve(c) ==
  /\ pc[c] = "idle"
  /\ pc' = [pc EXCEPT ![c] = "await"]
  /\ cv' = [cv EXCEPT ![c] = "parse"]
  /\ getKeyCalls' = [getKeyCalls EXCEPT ![c] = IF input[c].key.fn THEN @ + 1 ELSE @]
  /\ UNCHANGED <<input, key, verified, outcome, trace, primKey, failedAt, kw>>

\* jwtVerify(jwt, key, options): hands all three to compactVerify and awaits it.
jwtVerifyCall(c) ==
  /\ pc[c] = "idle"
  /\ pc' = [pc EXCEPT ![c] = "await"]
  /\ cv' = [cv EXCEPT ![c] = "parse"]
  /\ UNCHANGED <<input, key, verified, outcome, trace, getKeyCalls, primKey, failedAt, kw>>

\* ------------------------------------------------------------------ compactVerify: the stages
Parse(c) ==
  /\ cv[c] = "parse"
  /\ IF input[c].jwt.wellFormed
       THEN Advance(c, "parse", "validateHeaders")
       ELSE Fail(c, "parse", "FormatError")
  /\ UNCHANGED <<input, pc, key, outcome, getKeyCalls, primKey, kw>>

ValidateHeaders(c) ==
  /\ cv[c] = "validateHeaders"
  /\ IF validateCrit(input[c].jwt.header, input[c].options.crit)
       THEN Advance(c, "validateHeaders", "resolveKey")
       ELSE Fail(c, "validateHeaders", "HeaderError")
  /\ UNCHANGED <<input, pc, key, outcome, getKeyCalls, primKey, kw>>

ResolveKey(c) ==
  /\ cv[c] = "resolveKey"
  /\ getKeyCalls' = [getKeyCalls EXCEPT ![c] = IF input[c].key.fn THEN @ + 1 ELSE @]
  /\ IF input[c].key.fn /\ resolveKey(input[c].key) = NoKey
       THEN /\ Fail(c, "resolveKey", "KeyResolutionError")
            /\ UNCHANGED key
       ELSE /\ Advance(c, "resolveKey", "checkKey")
            /\ key' = [key EXCEPT ![c] = resolveKey(input[c].key)]
  /\ UNCHANGED <<input, pc, outcome, primKey, kw>>

CheckKey(c) ==
  /\ cv[c] = "checkKey"
  /\ IF checkKeyCompatibility(input[c].jwt.header.alg, key[c])
       THEN Advance(c, "checkKey", "verify")
       ELSE Fail(c, "checkKey", "KeyMismatchError")
  /\ UNCHANGED <<input, pc, key, outcome, getKeyCalls, primKey, kw>>

Verify(c) ==
  /\ cv[c] = "verify"
  /\ primKey' = [primKey EXCEPT ![c] = key[c]]
  /\ IF verifyPrimitive(input[c].jwt.header.alg, key[c], input[c].jwt)
       THEN /\ cv' = [cv EXCEPT ![c] = "fulfilled"]
            /\ trace' = [trace EXCEPT ![c] = Append(@, "verify")]
            /\ verified' = [verified EXCEPT ![c] =
                 Fulfilled([payload |-> input[c].jwt.payload,
                            protectedHeader |-> input[c].jwt.header,
                            key |-> key[c]])]
            /\ UNCHANGED failedAt
       ELSE Fail(c, "verify", "CryptoOperationError")
  /\ UNCHANGED <<input, pc, key, outcome, getKeyCalls, kw>>

\* ------------------------------------------------------------------ jwtVerify: after the await
\* The call settles with out, having worked on v.
Settle(c, v, out) ==
  /\ pc' = [pc EXCEPT ![c] = "done"]
  /\ outcome' = [outcome EXCEPT ![c] = out]
  /\ trace' = [trace EXCEPT ![c] =
       IF UnencodedPayload(v.protectedHeader) THEN @ ELSE Append(@, "claims")]
  /\ failedAt' = [failedAt EXCEPT ![c] =
       IF out.status = "fulfilled" THEN @
       ELSE IF UnencodedPayload(v.protectedHeader) THEN "b64" ELSE "claims"]
  /\ UNCHANGED <<input, cv, key, verified, getKeyCalls, primKey, kw>>

\* The failure is caught and the token's payload returned as it was received.
jwtVerifyRejectedSwallow(c) ==
  /\ pc[c] = "await"
  /\ verified[c].status = "rejected"
  /\ pc' = [pc EXCEPT ![c] = "done"]
  /\ outcome' = [outcome EXCEPT ![c] =
       Fulfilled([payload |-> input[c].jwt.payload, protectedHeader |-> input[c].jwt.header])]
  /\ UNCHANGED <<input, cv, key, verified, trace, getKeyCalls, primKey, failedAt, kw>>

\* The failure is caught and another one thrown in its place.
jwtVerifyRejectedRewrap(c) ==
  /\ pc[c] = "await"
  /\ verified[c].status = "rejected"
  /\ pc' = [pc EXCEPT ![c] = "done"]
  /\ outcome' = [outcome EXCEPT ![c] = Rejected("JWTInvalid", "")]
  /\ UNCHANGED <<input, cv, key, verified, trace, getKeyCalls, primKey, failedAt, kw>>

\* compactVerify rejected: the await throws and jwtVerify rejects with the same failure.
jwtVerifyRejected(c) ==
  /\ pc[c] = "await"
  /\ verified[c].status = "rejected"
  /\ pc' = [pc EXCEPT ![c] = "done"]
  /\ outcome' = [outcome EXCEPT ![c] = verified[c]]
  /\ UNCHANGED <<input, cv, key, verified, trace, getKeyCalls, primKey, failedAt, kw>>

\* verified is one variable of the module, written by every call.
jwtVerifyResumeShared(c) ==
  /\ pc[c] = "await"
  /\ verified[c].status = "fulfilled"
  /\ \E d \in Calls :
       /\ verified[d].status = "fulfilled"
       /\ Settle(c, verified[d].value,
                 jwtVerifyContinue(verified[d].value, input[c].key, input[c].options))

\* compactVerify fulfilled: the b64 check, the claims, the result.
jwtVerifyResume(c) ==
  /\ pc[c] = "await"
  /\ verified[c].status = "fulfilled"
  /\ Settle(c, verified[c].value,
            jwtVerifyContinue(verified[c].value, input[c].key, input[c].options))

\* ------------------------------------------------------------------ specifications
NoKW == [pc |-> "off"]

InitCalls ==
  /\ cv = [c \in Calls |-> "none"]
  /\ key = [c \in Calls |-> NoKey]
  /\ verified = [c \in Calls |-> Pending]
  /\ outcome = [c \in Calls |-> Pending]
  /\ trace = [c \in Calls |-> <<>>]
  /\ getKeyCalls = [c \in Calls |-> 0]
  /\ primKey = [c \in Calls |-> NoKey]
  /\ failedAt = [c \in Calls |-> "none"]
  /\ kw = NoKW

\* One call, with any arguments.
Init ==
  /\ \E i \in Inputs : input = [c \in Calls |-> IF c = 1 THEN i ELSE DefaultInput]
  /\ pc = [c \in Calls |-> IF c = 1 THEN "idle" ELSE "unused"]
  /\ InitCalls

\* NCalls calls in flight at once.
InitConc ==
  /\ input \in [Calls -> ConcInputs]
  /\ pc = [c \in Calls |-> "idle"]
  /\ InitCalls

Next ==
  \E c \in Calls :
    \/ jwtVerifyCall(c)
    \/ Parse(c)
    \/ ValidateHeaders(c)
    \/ ResolveKey(c)
    \/ CheckKey(c)
    \/ Verify(c)
    \/ jwtVerifyRejected(c)
    \/ jwtVerifyResume(c)

Spec == Init /\ [][Next]_vars
SpecConc == InitConc /\ [][Next]_vars

\* ------------------------------------------------------------------ the key-wrap test, step by step
NVectors == Len(algorithms([isChromium |-> FALSE, isElectron |-> FALSE]))

kwAlg == algorithms(kw.env)[kw.vec].alg
kwWorks == algorithms(kw.env)[kw.vec].works

\* secretsFor(alg): [lib.generateSecret(alg), random(length)]. Where the runtime
\* lacks the algorithm, generateSecret may already reject.
secretsFor ==
  /\ kw.pc = "secretsFor"
  /\ \E g \in 1..NMaterial, r \in 1..NMaterial, p \in Plaintexts :
       \E generated \in {Secret(requiredBits(kwAlg) \div 8, g)}
                          \cup (IF platformSupports(kw.env, kw.vec) THEN {} ELSE {RejectedSecret}) :
         kw' = [kw EXCEPT !.pc = "encrypt", !.sec = 1, !.returned = <<>>,
                          !.execute = "pending", !.pt = p,
                          !.secrets = <<generated, Secret(randomLength(kwAlg), r)>>]
  /\ UNCHANGED jwtVars

\* roundtrip, first half: await the secret, encrypt the plaintext with it.
roundtripEncrypt ==
  /\ kw.pc = "encrypt"
  /\ LET secret == kw.secrets[kw.sec]
     IN  IF secret.kty = "rejected" \/ ~keyFits(kwAlg, secret)
              \/ ~platformSupports(kw.env, kw.vec)
           THEN kw' = [kw EXCEPT !.pc = "executed", !.execute = "rejected"]
           ELSE \E c \in 1..NMaterial :
                  kw' = [kw EXCEPT !.pc = "decrypt",
                                   !.jwe = encrypt(kwAlg, secret, Secret(cekLength, c), kw.pt)]
  /\ UNCHANGED jwtVars

\* roundtrip, second half: decrypt with the same secret; the test asserts that the
\* plaintext came back. Then the next secret, or execute is through.
roundtripDecrypt ==
  /\ kw.pc = "decrypt"
  /\ LET back == decrypt(kw.jwe, kw.secrets[kw.sec])
     IN  IF back \notin Plaintexts
           THEN kw' = [kw EXCEPT !.pc = "executed", !.execute = "rejected"]
           ELSE IF kw.sec < Len(kw.secrets)
             THEN kw' = [kw EXCEPT !.pc = "encrypt", !.sec = @ + 1,
                                   !.returned = Append(@, back)]
             ELSE kw' = [kw EXCEPT !.pc = "executed", !.execute = "fulfilled",
                                   !.returned = Append(@, back)]
  /\ UNCHANGED jwtVars

\* The test's verdict: execute must fulfil with the plaintexts where the vector
\* works, and reject where it does not. Then the next vector.
testVerdict ==
  /\ kw.pc = "executed"
  /\ LET pass == IF kwWorks
                   THEN kw.execute = "fulfilled" /\ \A i \in 1..Len(kw.returned) : kw.returned[i] = kw.pt
                   ELSE kw.execute = "rejected"
     IN  kw' = [kw EXCEPT !.verdicts = Append(@, pass),
                          !.pc = IF kw.vec < NVectors THEN "secretsFor" ELSE "done",
                          !.vec = IF kw.vec < NVectors THEN @ + 1 ELSE @]
  /\ UNCHANGED jwtVars

InitKW ==
  /\ input = [c \in Calls |-> DefaultInput]
  /\ pc = [c \in Calls |-> "unused"]
  /\ cv = [c \in Calls |-> "none"]
  /\ key = [c \in Calls |-> NoKey]
  /\ verified = [c \in Calls |-> Pending]
  /\ outcome = [c \in Calls |-> Pending]
  /\ trace = [c \in Calls |-> <<>>]
  /\ getKeyCalls = [c \in Calls |-> 0]
  /\ primKey = [c \in Calls |-> NoKey]
  /\ failedAt = [c \in Calls |-> "none"]
  /\ \E e \in Envs :
       kw = [pc |-> "secretsFor", env |-> e, vec |-> 1, sec |-> 1,
             secrets |-> <<>>, pt |-> "none", jwe |-> NoJWE, returned |-> <<>>,
             execute |-> "pending", verdicts |-> <<>>]

NextKW == secretsFor \/ roundtripEncrypt \/ roundtripDecrypt \/ testVerdict

SpecKW == InitKW /\ [][NextKW]_vars

\* ------------------------------------------------------------------ the claims
Alg(c) == input[c].jwt.header.alg
PrimitiveSucceeded(c) ==
  /\ "verify" \in Range(trace[c])
  /\ primKey[c] # NoKey
  /\ verifyPrimitive(Alg(c), primKey[c], input[c].jwt)

\* C1: within one jwtVerify call the stages run only in the order parse, validate
\* headers, resolve key, (check key,) verify primitive, validate claims; the claims
\* validator runs only after compactVerify fulfilled; a failed stage is the last
\* stage run and the call rejects with that stage's failure.
C1_StagesInOrder ==
  \A c \in Calls :
    /\ IsPrefix(trace[c], StageOrder)
    /\ ("claims" \in Range(trace[c]) =>
          cv[c] = "fulfilled" /\ verified[c].status = "fulfilled")
    /\ (failedAt[c] \notin {"none", "b64"} => Last(trace[c]) = failedAt[c])
    /\ (failedAt[c] = "b64" => Last(trace[c]) = "verify")
    /\ (pc[c] = "done" /\ failedAt[c] # "none" => outcome[c].status = "rejected")
    /\ (pc[c] = "done" /\ verified[c].status = "rejected" => outcome[c] = verified[c])

C1_Witness ==
  \E c \in Calls :
    pc[c] = "done" /\ trace[c] = StageOrder /\ outcome[c].status = "fulfilled"

\* C2: jwtVerify fulfils (returns a payload) only if the verify primitive succeeded
\* on this token in this call; a call that ends without that ends rejected.
C2_PayloadOnlyIfVerified ==
  \A c \in Calls :
    /\ (outcome[c].status = "fulfilled" => PrimitiveSucceeded(c))
    /\ (pc[c] = "done" /\ ~PrimitiveSucceeded(c) => outcome[c].status = "rejected")

C2_Witness ==
  \E c \in Calls :
    /\ pc[c] = "done"
    /\ primKey[c] # NoKey
    /\ ~PrimitiveSucceeded(c)
    /\ outcome[c] = Rejected("CryptoOperationError", "")

\* C3: a token whose crit names an extension the caller did not declare, verified
\* with a resolver, fails at header validation; the resolver is never invoked and
\* no key reaches the primitive.
CritNotUnderstood(c) ==
  /\ pc[c] # "unused"
  /\ input[c].jwt.wellFormed
  /\ "unknownExt" \in input[c].jwt.header.crit
  /\ "unknownExt" \notin input[c].options.crit
  /\ input[c].key.fn

C3_CritFailsBeforeResolver ==
  \A c \in Calls :
    CritNotUnderstood(c) =>
      /\ getKeyCalls[c] = 0
      /\ key[c] = NoKey
      /\ primKey[c] = NoKey
      /\ (pc[c] = "done" =>
            outcome[c] = Rejected("HeaderError", "") /\ failedAt[c] = "validateHeaders")

C3_Witness ==
  \E c \in Calls :
    CritNotUnderstood(c) /\ pc[c] = "done" /\ input[c].key.key # NoKey

\* C4: an HS256 token verified with an RSA public key (valid header otherwise) fails
\* with a key-mismatch error at the key check; the primitive is never invoked and
\* the call never fulfils, also when the token was signed with the key's bytes.
AlgConfusion(c) ==
  /\ pc[c] # "unused"
  /\ input[c].jwt.wellFormed
  /\ Alg(c) = "HS256"
  /\ resolveKey(input[c].key) = rsaPubA

C4_NoAlgorithmConfusion ==
  \A c \in Calls :
    AlgConfusion(c) =>
      /\ primKey[c] = NoKey
      /\ outcome[c].status # "fulfilled"
      /\ (pc[c] = "done" /\ validateCrit(input[c].jwt.header, input[c].options.crit) =>
            outcome[c] = Rejected("KeyMismatchError", "") /\ failedAt[c] = "checkKey")

C4_Witness ==
  \E c \in Calls :
    /\ AlgConfusion(c)
    /\ input[c].jwt.signedBy = "pubA"
    /\ pc[c] = "done"
    /\ failedAt[c] = "checkKey"

\* C5: when the resolver finds no key the call ends with that failure: no primitive
\* call with any key, no claims validation, no payload.
ResolverFailed(c) ==
  input[c].key.fn /\ resolveKey(input[c].key) = NoKey /\ getKeyCalls[c] > 0

C5_ResolverFailureIsTerminal ==
  \A c \in Calls :
    ResolverFailed(c) =>
      /\ primKey[c] = NoKey
      /\ "verify" \notin Range(trace[c])
      /\ "claims" \notin Range(trace[c])
      /\ outcome[c].status # "fulfilled"
      /\ (pc[c] = "done" => outcome[c] = Rejected("KeyResolutionError", ""))

C5_Witness ==
  \E c \in Calls : ResolverFailed(c) /\ pc[c] = "done"

\* C6: signature verified, current time fixed at T = Now, tolerance 0, the other
\* time claim absent or satisfied: exp = T - 1 rejects as expired, exp = T + 1
\* fulfils, nbf = T + 1 rejects as not yet valid, nbf = T - 1 fulfils.
ClaimsReached(c) ==
  /\ pc[c] = "done"
  /\ verified[c].status = "fulfilled"
  /\ ~UnencodedPayload(input[c].jwt.header)
  /\ input[c].options.clockTolerance = 0
  /\ input[c].options.currentDate = Now

C6_ClaimsBoundary ==
  \A c \in Calls :
    ClaimsReached(c) =>
      LET exp == input[c].jwt.payload.exp
          nbf == input[c].jwt.payload.nbf
      IN  /\ (exp = Now - 1 /\ nbf \in {Undefined, Now - 1} =>
                outcome[c] = Rejected("JWTExpired", "exp"))
          /\ (exp = Now + 1 /\ nbf \in {Undefined, Now - 1} =>
                outcome[c].status = "fulfilled")
          /\ (nbf = Now + 1 /\ exp \in {Undefined, Now + 1} =>
                outcome[c] = Rejected("JWTClaimValidationFailed", "nbf"))
          /\ (nbf = Now - 1 /\ exp \in {Undefined, Now + 1} =>
                /\ outcome[c].status = "fulfilled"
                /\ outcome[c].value.payload = input[c].jwt.payload)

C6_Witness ==
  \E c \in Calls :
    /\ ClaimsReached(c)
    /\ input[c].jwt.payload = [exp |-> Now + 1, nbf |-> Now - 1]
    /\ outcome[c].status = "fulfilled"

\* C8: a fulfilled result has a key field exactly when the second argument was a
\* resolver function; then it is the key the resolver returned and the primitive
\* verified with; with a key passed directly the result is exactly payload and
\* protectedHeader.
C8_KeyFieldIffResolver ==
  \A c \in Calls :
    outcome[c].status = "fulfilled" =>
      LET v == outcome[c].value
      IN  /\ ("key" \in DOMAIN v) <=> input[c].key.fn
          /\ (input[c].key.fn =>
                v.key = resolveKey(input[c].key) /\ v.key = primKey[c])
          /\ (~input[c].key.fn => DOMAIN v = {"payload", "protectedHeader"})

C8_Witness ==
  \E c \in Calls :
    /\ outcome[c].status = "fulfilled"
    /\ input[c].key.fn
    /\ outcome[c].value.key = rsaPubA

\* C9: with NCalls calls interleaving at every stage, each call's outcome is the
\* outcome of that call run alone, and the key a call resolves and verifies with
\* is the key of its own argument.
C9_CallsAreIndependent ==
  \A c \in Calls :
    /\ (pc[c] = "done" => outcome[c] = SoloOutcome(input[c]))
    /\ key[c] \in {NoKey, resolveKey(input[c].key)}
    /\ primKey[c] \in {NoKey, resolveKey(input[c].key)}

C9_Witness ==
  \E c, d \in Calls :
    /\ c # d
    /\ pc[c] = "done" /\ outcome[c].status = "fulfilled"
    /\ cv[d] = "verify" /\ pc[d] = "await"
    /\ input[c].key # input[d].key
    /\ input[c].jwt # input[d].jwt

\* C10: once the signature verified, jwtVerify rejects with JWTInvalid exactly when
\* the protected header lists b64 in crit and has b64 false; then the claims
\* validator is not run; b64 false without b64 in crit does not reject this way.
C10_UnencodedPayloadRejected ==
  \A c \in Calls :
    pc[c] = "done" /\ verified[c].status = "fulfilled" =>
      LET h == verified[c].value.protectedHeader
          unencoded == "b64" \in h.crit /\ h.b64 = "false"
      IN  /\ (outcome[c] = Rejected("JWTInvalid", "")) <=> unencoded
          /\ (failedAt[c] = "b64") <=> unencoded
          /\ (unencoded => "claims" \notin Range(trace[c]))
          /\ (~unencoded => "claims" \in Range(trace[c]))

C10_Witness ==
  \E c \in Calls :
    /\ pc[c] = "done"
    /\ PrimitiveSucceeded(c)
    /\ input[c].jwt.header.b64 = "false"
    /\ "b64" \in input[c].jwt.header.crit
    /\ outcome[c] = Rejected("JWTInvalid", "")

\* C7 as stated: for every vector and both secrets the round trip returns the
\* plaintext, whatever the runtime.
C7_RoundTripEverywhere ==
  kw.pc = "executed" =>
    kw.execute = "fulfilled" /\ kw.returned = <<kw.pt, kw.pt>>

\* C7, amended: where the vector works in the runtime, encrypting with the
\* generated secret and with the raw random secret of (bits of alg)/8 bytes and
\* decrypting with the same secret returns the plaintext; where it does not work
\* the round trip rejects.
C7_RoundTripWhereSupported ==
  /\ (kw.pc = "secretsFor" => \A i \in 1..Len(kw.verdicts) : kw.verdicts[i])
  /\ (kw.pc = "executed" =>
        IF kwWorks
          THEN /\ kw.execute = "fulfilled"
               /\ kw.returned = <<kw.pt, kw.pt>>
               /\ kw.secrets[2].len * 8 = requiredBits(kwAlg)
          ELSE kw.execute = "rejected")

C7_Witness ==
  /\ kw.pc = "executed"
  /\ kwAlg = A192GCMKW
  /\ kw.env.isElectron
  /\ kw.execute = "fulfilled"
  /\ kw.secrets[2] = Secret(24, 2)
  /\ kw.returned = <<kw.pt, kw.pt>>

====
